---- MODULE Spec2Model ----
(***************************************************************************)
(* RUVA API (src/main.py, src/schemas.py): the HTTP handlers over the      *)
(* document store.  Python strings are TLA+ strings, an Optional value is  *)
(* a set with at most one element ({} is None), a list is a sequence, a    *)
(* dict or a pydantic model is a record.  A stored identifier is an        *)
(* ObjectId and str() of it is a string; both carry a type tag so that     *)
(* the two can be told apart.                                              *)
(***************************************************************************)
EXTENDS Integers, Sequences, FiniteSets, Bags, TLC

VARIABLES db, last, registered, completed, inflight

vars == <<db, last, registered, completed, inflight>>

(* ------------------------------ bounds --------------------------------- *)
\* number of requests that may write to the store in one behaviour
MaxWrites == 2

Emails == {"a@x.io", "b@x.io"}
Passwords == {"pw", "guest"}
\* "user-1" is the identifier the first User record gets; "u2" is no user's
UserIds == {"user-1", "u2"}
\* the threads that serve requests at the same time
Workers == {1, 2}

UserInputBody(u, h, w, a) ==
    [user_id |-> u, face_photo_url |-> {}, height_cm |-> h, weight_kg |-> w,
     age |-> a, goals |-> {}, style_vibe |-> {}]

\* request bodies of POST /input: no numeric field supplied; all three on
\* their lower limits and on their upper limits; one field just outside a
\* limit, the other two on theirs
InputPayloads ==
    {UserInputBody("user-1", {}, {}, {}),
     UserInputBody("user-1", {100}, {30}, {13}),
     UserInputBody("u2", {250}, {250}, {100}),
     UserInputBody("user-1", {99}, {30}, {13}),
     UserInputBody("user-1", {251}, {250}, {100}),
     UserInputBody("user-1", {100}, {29}, {13}),
     UserInputBody("user-1", {250}, {251}, {100}),
     UserInputBody("user-1", {100}, {30}, {12}),
     UserInputBody("u2", {}, {}, {101})}

\* a store operation fails with one of these messages
StoreErrors == {"store down"}
\* the outcomes of one store operation: {} when it completes, {m} when it
\* fails with message m
ErrChoices == {{}} \cup {{m} : m \in StoreErrors}
\* the requests whose first store operation is also tried failing; the
\* store's failure does not depend on the request
FailingRequests ==
    {[email |-> "a@x.io", password |-> "pw"], [email |-> "a@x.io"], [user_id |-> "user-1"],
     UserInputBody("user-1", {100}, {30}, {13})}
ErrFor(req) == IF req \in FailingRequests THEN ErrChoices ELSE {{}}

(* --------------------------- values ------------------------------------ *)
ObjectId(coll, n) == [type |-> "ObjectId", val |-> coll \o "-" \o ToString(n)]
str(v) == [type |-> "str", val |-> v.val]

Collections == {"user", "userinput", "lookmaxxingdetail", "physiqueplan",
                "stylingplan", "glowupplan", "analysissummary"}
EmptyDb == [c \in Collections |-> <<>>]

RECURSIVE join(_, _)
join(sep, xs) ==
    IF Len(xs) = 0 THEN ""
    ELSE IF Len(xs) = 1 THEN xs[1]
    ELSE xs[1] \o sep \o join(sep, Tail(xs))

(* ------------------------ document store adapter ----------------------- *)
\* create_document(collection, record): one insert, returns the string form
\* of the new identifier; a failing insert stores nothing and raises
create_document(d, coll, data, err) ==
    IF err # {}
    THEN [raised |-> TRUE, exc |-> CHOOSE m \in err : TRUE, db |-> d, id |-> str(ObjectId(coll, 0))]
    ELSE LET oid == ObjectId(coll, Len(d[coll]) + 1)
         IN [raised |-> FALSE, exc |-> "",
             db |-> [d EXCEPT ![coll] = Append(@, [_id |-> oid] @@ data)],
             id |-> str(oid)]

Matches(doc, filter) == \A k \in DOMAIN filter : doc[k] = filter[k]

\* get_documents(collection, filter, limit): the records matching the filter
\* exactly, in the store's natural (insertion) order, at most `limit' of them
get_documents(d, coll, filter, limit, err) ==
    IF err # {}
    THEN [raised |-> TRUE, exc |-> CHOOSE m \in err : TRUE, docs |-> <<>>]
    ELSE LET found == SelectSeq(d[coll], LAMBDA doc : Matches(doc, filter))
         IN [raised |-> FALSE, exc |-> "",
             docs |-> SubSeq(found, 1, IF Len(found) < limit THEN Len(found) ELSE limit)]

(* ------------------------------ schemas -------------------------------- *)
User(email, password_hash, is_guest) ==
    [email |-> email, password_hash |-> password_hash, is_guest |-> is_guest, plan |-> "free"]

\* InRange with gt/lt in place of ge/le
InRange_exclusive(opt, lo, hi) == \A v \in opt : v > lo /\ v < hi

\* Field(None, ge=lo, le=hi) on an Optional number
InRange(opt, lo, hi) == \A v \in opt : v >= lo /\ v <= hi

UserInputValid(data) ==
    /\ InRange(data.height_cm, 100, 250)
    /\ InRange(data.weight_kg, 30, 250)
    /\ InRange(data.age, 13, 100)

(* ------------------------------ responses ------------------------------ *)
\* kind "ok": the handler returned `body'; kind "http": the handler raised
\* HTTPException(status, detail); kind "exc": an exception left the handler
\* uncaught (detail holds its message), which the framework answers with a
\* bare 500; kind "invalid": the body failed validation before the handler
NoBody == [none |-> TRUE]
Ok(body) == [kind |-> "ok", status |-> 200, detail |-> "", body |-> body]
HTTPException(status, detail) == [kind |-> "http", status |-> status, detail |-> detail, body |-> NoBody]
Uncaught(exc) == [kind |-> "exc", status |-> 500, detail |-> exc, body |-> NoBody]
ValidationError == [kind |-> "invalid", status |-> 422, detail |-> "validation error", body |-> NoBody]
\* the handler has not answered yet
Pending == [kind |-> "pending", status |-> 0, detail |-> "", body |-> NoBody]

Result(d, resp) == [db |-> d, resp |-> resp]

(* ------------------------------ handlers ------------------------------- *)
root == Ok([name |-> "RUVA", status |-> "ok"])

\* signup_check that lets an email through while fewer than two records hold it
signup_check_nodup(d, payload, err) ==
    LET existing == get_documents(d, "user", [email |-> payload.email], 2, err)
    IN IF existing.raised THEN [go |-> FALSE, resp |-> HTTPException(500, existing.exc)]
       ELSE IF Len(existing.docs) > 1
            THEN [go |-> FALSE, resp |-> HTTPException(409, "Email already exists")]
            ELSE [go |-> TRUE, resp |-> NoBody]

\* signup, lines 46-51: the lookup; `go' tells whether the handler continues
signup_check(d, payload, err) ==
    LET existing == get_documents(d, "user", [email |-> payload.email], 1, err)
    IN IF existing.raised THEN [go |-> FALSE, resp |-> HTTPException(500, existing.exc)]
       ELSE IF Len(existing.docs) > 0
            THEN [go |-> FALSE, resp |-> HTTPException(409, "Email already exists")]
            ELSE [go |-> TRUE, resp |-> NoBody]

\* signup, lines 53-55: the insert
signup_create(d, payload, err) ==
    LET user == User(payload.email, "hash:" \o payload.password, FALSE)
        c == create_document(d, "user", user, err)
    IN IF c.raised THEN Result(d, Uncaught(c.exc))
       ELSE Result(c.db, Ok([user_id |-> c.id, email |-> payload.email]))

\* login that compares the stored hash with the bare password
login_rawcompare(d, payload, err) ==
    LET users == get_documents(d, "user", [email |-> payload.email], 1, err)
    IN IF users.raised THEN Result(d, HTTPException(500, users.exc))
       ELSE IF Len(users.docs) = 0 THEN Result(d, HTTPException(404, "User not found"))
       ELSE LET user == users.docs[1]
            IN IF user.password_hash # payload.password
               THEN Result(d, HTTPException(401, "Invalid credentials"))
               ELSE Result(d, Ok([user_id |-> str(user._id), email |-> user.email]))

login(d, payload, err) ==
    LET users == get_documents(d, "user", [email |-> payload.email], 1, err)
    IN IF users.raised THEN Result(d, HTTPException(500, users.exc))
       ELSE IF Len(users.docs) = 0 THEN Result(d, HTTPException(404, "User not found"))
       ELSE LET user == users.docs[1]
            IN IF user.password_hash # "hash:" \o payload.password
               THEN Result(d, HTTPException(401, "Invalid credentials"))
               ELSE Result(d, Ok([user_id |-> str(user._id), email |-> user.email]))

\* guest_login with the uniqueness check of signup
guest_login_unique(d, payload, err) ==
    LET user == User(payload.email, "guest", TRUE)
        existing == get_documents(d, "user", [email |-> payload.email], 1, {})
        c == create_document(d, "user", user, err)
    IN IF Len(existing.docs) > 0 THEN Result(d, HTTPException(409, "Email already exists"))
       ELSE IF c.raised THEN Result(d, Uncaught(c.exc))
       ELSE Result(c.db, Ok([user_id |-> c.id, email |-> payload.email, guest |-> TRUE]))

guest_login(d, payload, err) ==
    LET user == User(payload.email, "guest", TRUE)
        c == create_document(d, "user", user, err)
    IN IF c.raised THEN Result(d, Uncaught(c.exc))
       ELSE Result(c.db, Ok([user_id |-> c.id, email |-> payload.email, guest |-> TRUE]))

save_user_input(d, data, err) ==
    IF ~UserInputValid(data) THEN Result(d, ValidationError)
    ELSE LET c == create_document(d, "userinput", data, err)
         IN IF c.raised THEN Result(d, Uncaught(c.exc))
            ELSE Result(c.db, Ok([input_id |-> c.id]))

(* --------------------------- plan generators --------------------------- *)
make_face_analysis(data) ==
    [user_id |-> data.user_id,
     face_shape |-> "oval",
     strong_features |-> <<"defined jawline">>,
     weak_features |-> <<"under-eye puffiness">>,
     grooming |-> <<"weekly exfoliation", "SPF 50 daily">>,
     hairstyle |-> <<"medium length textured crop">>,
     accessories |-> <<"thin metal frames", "minimalist studs">>]

make_physique_plan(data) ==
    [user_id |-> data.user_id,
     body_type |-> "athletic",
     workout_7_day |-> <<"Push strength", "Pull strength", "Legs + core",
                         "Active recovery (walk + mobility)", "Upper hypertrophy",
                         "Lower hypertrophy", "Rest + stretch">>,
     posture_cues |-> <<"neck long", "ribs down", "glutes on">>,
     diet_notes |-> <<"high protein", "2L water", "500 kcal deficit (if fat loss)">>]

make_styling_plan(data) ==
    [user_id |-> data.user_id,
     daily_outfits |-> <<"monochrome black smart-casual", "cream knit + tapered chinos">>,
     colours |-> <<"cream", "black", "light gold">>,
     wardrobe_essentials |-> <<"white sneakers", "dark denim", "oxford shirt">>,
     hairstyle_synergy |-> <<"texture complements jawline">>]

make_glow_up(data) ==
    [user_id |-> data.user_id,
     week_by_week |-> <<"Week 1: skin baseline + haircut",
                        "Week 2: posture daily 10m + wardrobe audit",
                        "Week 3: gym routine locked",
                        "Week 4: social refresh (bio/photos)",
                        "Weeks 5-12: progressions + photos">>]

make_summary(face, phys, style) ==
    [user_id |-> face.user_id,
     face_summary |-> "Face shape " \o face.face_shape \o "; groom: " \o join(", ", face.grooming),
     physique_summary |-> "Body " \o phys.body_type \o "; posture: " \o join(", ", phys.posture_cues),
     style_summary |-> "Colours: " \o join(", ", style.colours),
     outfit_summary |-> "Outfits: " \o join(", ", style.daily_outfits)]

(* ------------------------------ workflow ------------------------------- *)
\* the five inserts with the summary written first
WorkflowWrites_summaryfirst(face, phys, style, glow, summary) ==
    << [coll |-> "analysissummary", doc |-> summary],
       [coll |-> "lookmaxxingdetail", doc |-> face],
       [coll |-> "physiqueplan", doc |-> phys],
       [coll |-> "stylingplan", doc |-> style],
       [coll |-> "glowupplan", doc |-> glow] >>

\* run_workflow, lines 169-173: the five inserts in program order
WorkflowWrites(face, phys, style, glow, summary) ==
    << [coll |-> "lookmaxxingdetail", doc |-> face],
       [coll |-> "physiqueplan", doc |-> phys],
       [coll |-> "stylingplan", doc |-> style],
       [coll |-> "glowupplan", doc |-> glow],
       [coll |-> "analysissummary", doc |-> summary] >>

\* run_workflow_lookup that answers 404 when the user has no stored input
run_workflow_lookup_noinput404(d, req, err) ==
    LET inputs == get_documents(d, "userinput", [user_id |-> req.user_id], 1, err)
    IN IF inputs.raised THEN [go |-> FALSE, resp |-> HTTPException(500, inputs.exc), base |-> NoBody]
       ELSE IF Len(inputs.docs) = 0
            THEN [go |-> FALSE, resp |-> HTTPException(404, "No input yet"), base |-> NoBody]
            ELSE [go |-> TRUE, resp |-> Pending, base |-> inputs.docs[1]]

\* run_workflow, lines 156-160: the lookup and the choice of `base'
run_workflow_lookup(d, req, err) ==
    LET inputs == get_documents(d, "userinput", [user_id |-> req.user_id], 1, err)
    IN IF inputs.raised THEN [go |-> FALSE, resp |-> HTTPException(500, inputs.exc), base |-> NoBody]
       ELSE [go |-> TRUE, resp |-> Pending,
             base |-> IF Len(inputs.docs) > 0 THEN inputs.docs[1] ELSE [user_id |-> req.user_id]]

\* run_workflow, lines 162-166: the five documents built from `base'
WorkflowDocs(base) ==
    LET face == make_face_analysis(base)
        phys == make_physique_plan(base)
        style == make_styling_plan(base)
        glow == make_glow_up(base)
        summary == make_summary(face, phys, style)
    IN [summary |-> summary, face |-> face, physique |-> phys, styling |-> style, glow |-> glow]

\* run_workflow, lines 169-173: insert number pos of the five
run_workflow_insert(d, base, pos, err) ==
    LET docs == WorkflowDocs(base)
        items == WorkflowWrites(docs.face, docs.physique, docs.styling, docs.glow, docs.summary)
        c == create_document(d, items[pos].coll, items[pos].doc, err)
    IN IF c.raised THEN Result(d, Uncaught(c.exc)) ELSE Result(c.db, Pending)

\* run_workflow, lines 175-181: the response
run_workflow_return(base) == Ok(WorkflowDocs(base))

\* get_latest_summary that returns the stored identifier as it is
get_latest_summary_rawid(d, user_id, err) ==
    LET docs == get_documents(d, "analysissummary", [user_id |-> user_id], 1, err)
    IN IF docs.raised THEN Result(d, HTTPException(500, docs.exc))
       ELSE IF Len(docs.docs) = 0 THEN Result(d, HTTPException(404, "No summary yet"))
       ELSE Result(d, Ok(docs.docs[1]))

\* get_latest_summary whose `doc' is the stored record itself, so that the
\* assignment to doc["_id"] lands in the store
get_latest_summary_aliased(d, user_id, err) ==
    LET docs == get_documents(d, "analysissummary", [user_id |-> user_id], 1, err)
    IN IF docs.raised THEN Result(d, HTTPException(500, docs.exc))
       ELSE IF Len(docs.docs) = 0 THEN Result(d, HTTPException(404, "No summary yet"))
       ELSE LET doc == docs.docs[1]
                i == CHOOSE j \in 1..Len(d.analysissummary) : d.analysissummary[j] = doc
                out == [doc EXCEPT !._id = str(doc._id)]
            IN Result([d EXCEPT !.analysissummary[i] = out], Ok(out))

get_latest_summary(d, user_id, err) ==
    LET docs == get_documents(d, "analysissummary", [user_id |-> user_id], 1, err)
    IN IF docs.raised THEN Result(d, HTTPException(500, docs.exc))
       ELSE IF Len(docs.docs) = 0 THEN Result(d, HTTPException(404, "No summary yet"))
       ELSE LET doc == docs.docs[1]
            IN Result(d, Ok([doc EXCEPT !._id = str(doc._id)]))

(* ------------------------------ state ---------------------------------- *)
\* db: the store, one sequence of documents per collection
\* last: the handler step taken last: its request, its response (Pending
\*       while the handler has not answered) and, in `from', the request in
\*       flight that the step took further (NoReq when it began a request)
\* registered: the (email, password, user_id) of every signup that returned
\* completed: the user ids whose workflow run returned
\* inflight: the signups and workflow runs some thread is in the middle of,
\*           as a bag (threads are interchangeable); pos store inserts are
\*           behind the request
Busy(op, req, base, pos) == [op |-> op, req |-> req, base |-> base, pos |-> pos]
\* the step began a request
NoReq == Busy("none", NoBody, NoBody, 0)

Writes(d) == Len(d.user) + Len(d.userinput) + Len(d.lookmaxxingdetail)
\* requests in flight that have not made their first insert yet
ToWrite ==
    LET started == {x \in BagToSet(inflight) : x.pos > 0}
    IN BagCardinality(inflight) - BagCardinality([x \in started |-> inflight[x]])
Room(n) == Writes(db) + ToWrite + n <= MaxWrites
\* some thread is free to take a new request
Free == BagCardinality(inflight) < Cardinality(Workers)
Take(cur) == inflight (-) SetToBag({cur})
Put(b, cur) == b (+) SetToBag({cur})

Init ==
    /\ db = EmptyDb
    /\ last = [op |-> "none", req |-> NoBody, resp |-> Ok(NoBody), from |-> NoReq]
    /\ registered = {}
    /\ completed = {}
    /\ inflight = EmptyBag

\* a handler with at most one store operation
Serve(op, req, r) ==
    /\ Free
    /\ r.db # db => Room(1)
    /\ db' = r.db
    /\ last' = [op |-> op, req |-> req, resp |-> r.resp, from |-> NoReq]
    /\ UNCHANGED <<registered, completed, inflight>>

Root == Serve("root", NoBody, Result(db, root))

Login ==
    \E e \in Emails, p \in Passwords :
        LET payload == [email |-> e, password |-> p]
        IN \E err \in ErrFor(payload) : Serve("login", payload, login(db, payload, err))

GuestLogin ==
    \E e \in Emails :
        LET payload == [email |-> e]
        IN \E err \in ErrFor(payload) : Serve("guest_login", payload, guest_login(db, payload, err))

SaveUserInput ==
    \E data \in InputPayloads, err \in ErrChoices :
        /\ err \in ErrFor(data)
        /\ Serve("save_user_input", data, save_user_input(db, data, err))

GetLatestSummary ==
    \E u \in UserIds, err \in ErrChoices :
        /\ err \in ErrFor([user_id |-> u])
        /\ Serve("get_latest_summary", [user_id |-> u], get_latest_summary(db, u, err))

\* signup up to its lookup (main.py:47)
SignupLookup ==
    \E e \in Emails, p \in Passwords, err \in ErrChoices :
        LET payload == [email |-> e, password |-> p]
            chk == signup_check(db, payload, err)
        IN /\ err \in ErrFor(payload)
           /\ Free
           /\ chk.go => Room(1)
           /\ inflight' = IF chk.go THEN Put(inflight, Busy("signup", payload, NoBody, 0))
                          ELSE inflight
           /\ last' = [op |-> "signup", req |-> payload, from |-> NoReq,
                       resp |-> IF chk.go THEN Pending ELSE chk.resp]
           /\ UNCHANGED <<db, registered, completed>>

\* signup from its lookup to its end (main.py:53-55)
SignupInsert ==
    \E cur \in BagToSet(inflight), err \in ErrChoices :
        LET r == signup_create(db, cur.req, err)
        IN /\ cur.op = "signup"
           /\ db' = r.db
           /\ last' = [op |-> "signup", req |-> cur.req, resp |-> r.resp, from |-> cur]
           /\ registered' = IF r.resp.kind = "ok"
                            THEN registered \cup {[email |-> cur.req.email, password |-> cur.req.password,
                                                   user_id |-> r.resp.body.user_id]}
                            ELSE registered
           /\ inflight' = Take(cur)
           /\ UNCHANGED completed

\* run_workflow up to its lookup (main.py:157)
RunLookup ==
    \E u \in UserIds, err \in ErrChoices :
        LET req == [user_id |-> u]
            l == run_workflow_lookup(db, req, err)
        IN /\ err \in ErrFor(req)
           /\ Free
           /\ l.go => Room(1)
           /\ inflight' = IF l.go THEN Put(inflight, Busy("run_workflow", req, l.base, 0))
                          ELSE inflight
           /\ last' = [op |-> "run_workflow", req |-> req, resp |-> l.resp, from |-> NoReq]
           /\ UNCHANGED <<db, registered, completed>>

\* run_workflow, one of the inserts (main.py:169-173)
RunInsert ==
    \E cur \in BagToSet(inflight), err \in ErrChoices :
        LET r == run_workflow_insert(db, cur.base, cur.pos + 1, err)
        IN /\ cur.op = "run_workflow" /\ cur.pos < 5
           /\ db' = r.db
           /\ last' = [op |-> "run_workflow", req |-> cur.req, resp |-> r.resp, from |-> cur]
           /\ inflight' = IF r.resp.kind = "exc" THEN Take(cur)
                          ELSE Put(Take(cur), [cur EXCEPT !.pos = cur.pos + 1])
           /\ UNCHANGED <<registered, completed>>

\* run_workflow, the return after the fifth insert (main.py:175-181)
RunReturn ==
    \E cur \in BagToSet(inflight) :
        /\ cur.op = "run_workflow" /\ cur.pos = 5
        /\ last' = [op |-> "run_workflow", req |-> cur.req, from |-> cur,
                    resp |-> run_workflow_return(cur.base)]
        /\ completed' = completed \cup {cur.req.user_id}
        /\ inflight' = Take(cur)
        /\ UNCHANGED <<db, registered>>

Next ==
    \/ Root
    \/ SignupLookup
    \/ SignupInsert
    \/ Login
    \/ GuestLogin
    \/ SaveUserInput
    \/ RunLookup
    \/ RunInsert
    \/ RunReturn
    \/ GetLatestSummary

Spec == Init /\ [][Next]_vars

(* ------------------------------ properties ----------------------------- *)
IsPrefix(xs, ys) == Len(xs) <= Len(ys) /\ SubSeq(ys, 1, Len(xs)) = xs
\* collection c grew by exactly one record
GrewByOne(c) == Len(db'[c]) = Len(db[c]) + 1 /\ IsPrefix(db[c], db'[c])
Others(cs) == \A c \in Collections \ cs : db'[c] = db[c]
HasEmail(d, e) == \E i \in 1..Len(d.user) : d.user[i].email = e
DocsOf(d, c, u) == {i \in 1..Len(d[c]) : d[c][i].user_id = u}
Count(d, c, u) == Cardinality(DocsOf(d, c, u))
\* the step taken last met a store failure
StoreFailed(r) == r.resp.status = 500
Plans == {"lookmaxxingdetail", "physiqueplan", "stylingplan", "glowupplan", "analysissummary"}
PlanOrder == <<"lookmaxxingdetail", "physiqueplan", "stylingplan", "glowupplan", "analysissummary">>

\* C1: without a store failure, a signup whose lookup finds its email in a
\* User record is answered 409 and stores nothing; a signup whose lookup
\* finds no such record goes on to its insert, which stores exactly one
\* User with password_hash = "hash:" + password and is_guest = false and
\* returns an identifier no earlier successful signup returned.
C1_SignupStep ==
    (last'.op = "signup" /\ ~StoreFailed(last')) =>
        LET req == last'.req
            resp == last'.resp
        IN IF last'.from # NoReq
           THEN /\ resp.kind = "ok"
                /\ last'.from = Busy("signup", req, NoBody, 0)
                /\ inflight' = Take(last'.from)
                /\ GrewByOne("user") /\ Others({"user"})
                /\ LET new == db'.user[Len(db'.user)]
                   IN /\ new.email = req.email
                      /\ new.password_hash = "hash:" \o req.password
                      /\ new.is_guest = FALSE
                      /\ resp.body.user_id = str(new._id)
                /\ resp.body.email = req.email
                /\ \A r \in registered : r.user_id # resp.body.user_id
           ELSE /\ db' = db
                /\ IF HasEmail(db, req.email)
                   THEN resp.kind = "http" /\ resp.status = 409 /\ inflight' = inflight
                   ELSE resp = Pending /\ inflight' = Put(inflight, Busy("signup", req, NoBody, 0))

C1_Signup == [][C1_SignupStep]_vars

\* two signups have succeeded and a third, with a stored email, got 409
C1_Witness ==
    /\ last.op = "signup" /\ last.resp.status = 409
    /\ Cardinality(registered) = 2
    /\ Cardinality({r.user_id : r \in registered}) = 2

\* C2: without a store failure, a login with the email and password of an
\* earlier successful signup returns the identifier that signup returned; a
\* login with a signed-up email and another password gets 401; a login
\* with an email no User record holds gets 404; login leaves the store as
\* it was.
C2_LoginStep ==
    (last'.op = "login") =>
        /\ db' = db
        /\ ~StoreFailed(last') =>
            LET req == last'.req
                resp == last'.resp
                mine == {r \in registered : r.email = req.email}
            IN /\ \A r \in mine :
                    IF r.password = req.password
                    THEN resp.kind = "ok" /\ resp.body.user_id = r.user_id
                         /\ resp.body.email = req.email
                    ELSE resp.kind = "http" /\ resp.status = 401
               /\ ~HasEmail(db, req.email) => resp.kind = "http" /\ resp.status = 404

C2_Login == [][C2_LoginStep]_vars

\* C3: a guest login whose insert the store completes always succeeds,
\* whatever User records exist: it stores exactly one new User with
\* is_guest = true and password_hash = "guest" and returns its identifier
\* with guest = true.
C3_GuestStep ==
    (last'.op = "guest_login" /\ last'.resp.kind # "exc") =>
        LET req == last'.req
            resp == last'.resp
        IN /\ resp.kind = "ok"
           /\ GrewByOne("user") /\ Others({"user"})
           /\ LET new == db'.user[Len(db'.user)]
              IN /\ new.email = req.email
                 /\ new.is_guest = TRUE
                 /\ new.password_hash = "guest"
                 /\ resp.body.user_id = str(new._id)
           /\ resp.body.guest = TRUE
           /\ resp.body.email = req.email

C3_Guest == [][C3_GuestStep]_vars

\* a second guest login with the same email succeeded
C3_Witness ==
    /\ last.op = "guest_login" /\ last.resp.kind = "ok"
    /\ Len(db.user) = 2
    /\ db.user[1].email = db.user[2].email
    /\ db.user[1].is_guest /\ db.user[2].is_guest

\* C4: without a store failure, GET /summary/{u} gets 404 while the store
\* holds no AnalysisSummary of u, succeeds once a workflow run for u has
\* returned, and whenever it succeeds returns a stored AnalysisSummary of u
\* with the identifier as a string.
C4_Summary ==
    (last.op = "get_latest_summary" /\ ~StoreFailed(last)) =>
        LET u == last.req.user_id
            resp == last.resp
        IN /\ DocsOf(db, "analysissummary", u) = {} => resp.kind = "http" /\ resp.status = 404
           /\ u \in completed => resp.kind = "ok"
           /\ resp.kind \in {"ok", "http"}
           /\ resp.kind = "ok" =>
                /\ resp.body.user_id = u
                /\ resp.body._id.type = "str"
                /\ \E i \in DocsOf(db, "analysissummary", u) :
                       /\ resp.body._id = str(db.analysissummary[i]._id)
                       /\ resp.body = [db.analysissummary[i] EXCEPT !._id = resp.body._id]

\* a summary was returned, after the run for that user had returned, from a
\* store whose first summary is another user's
C4_Witness ==
    /\ last.op = "get_latest_summary" /\ last.resp.kind = "ok"
    /\ last.req.user_id \in completed
    /\ Len(db.analysissummary) = 2
    /\ db.analysissummary[1].user_id # last.req.user_id

\* C5: without a store failure, a workflow run whose lookup finds no
\* UserInput of its user id goes on with the bare record {user_id}: each of
\* its five inserts adds exactly one document, built from that record and
\* carrying that user_id, to the next of the five plan collections, nothing
\* else changes, and its response holds the five stored documents under
\* summary, face, physique, styling, glow.
C5_RunStep ==
    (last'.op = "run_workflow" /\ ~StoreFailed(last')) =>
        LET req == last'.req
            resp == last'.resp
            cur == last'.from
            bare == [user_id |-> req.user_id]
            docs == WorkflowDocs(bare)
            byColl == [lookmaxxingdetail |-> docs.face, physiqueplan |-> docs.physique,
                       stylingplan |-> docs.styling, glowupplan |-> docs.glow,
                       analysissummary |-> docs.summary]
        IN IF cur = NoReq
           THEN DocsOf(db, "userinput", req.user_id) = {} =>
                    /\ resp = Pending /\ db' = db
                    /\ inflight' = Put(inflight, Busy("run_workflow", req, bare, 0))
           ELSE cur.base = bare =>
                    IF cur.pos < 5
                    THEN LET c == PlanOrder[cur.pos + 1]
                             new == db'[c][Len(db'[c])]
                         IN /\ resp = Pending
                            /\ GrewByOne(c) /\ Others({c})
                            /\ new = [_id |-> new._id] @@ byColl[c]
                            /\ new.user_id = req.user_id
                            /\ inflight' = Put(Take(cur), [cur EXCEPT !.pos = cur.pos + 1])
                    ELSE /\ resp.kind = "ok" /\ db' = db
                         /\ inflight' = Take(cur)
                         /\ DOMAIN resp.body = {"summary", "face", "physique", "styling", "glow"}
                         /\ resp.body = docs
                         /\ \A c \in Plans : \E i \in DocsOf(db, c, req.user_id) :
                                db[c][i] = [_id |-> db[c][i]._id] @@ byColl[c]

C5_Run == [][C5_RunStep]_vars

\* a run returned for a user id with no stored input and no User record at all
C5_Witness ==
    /\ last.op = "run_workflow" /\ last.resp.kind = "ok"
    /\ last.from.base = [user_id |-> last.req.user_id]
    /\ db.user = <<>> /\ db.userinput = <<>>
    /\ Len(db.analysissummary) = 1

\* C6: a failing store operation never leaves a handler uncaught: the
\* handler turns it into HTTPException(500) with the failure's message.
C6_StoreFailuresCaught ==
    last.op \in {"signup", "login", "guest_login", "save_user_input", "run_workflow",
                 "get_latest_summary"} => last.resp.kind # "exc"

\* C7: POST /input is accepted exactly when every supplied numeric field is
\* inside its inclusive range; a rejected body leaves the store unchanged;
\* an accepted one whose insert the store completes adds exactly one
\* UserInput record, the body itself.
C7_InputStep ==
    (last'.op = "save_user_input") =>
        LET req == last'.req
            resp == last'.resp
            inside == /\ \A h \in req.height_cm : h \in 100..250
                      /\ \A w \in req.weight_kg : w \in 30..250
                      /\ \A a \in req.age : a \in 13..100
        IN /\ (resp.kind = "invalid") <=> ~inside
           /\ resp.kind = "invalid" => db' = db
           /\ (inside /\ resp.kind # "exc") =>
                /\ resp.kind = "ok"
                /\ GrewByOne("userinput") /\ Others({"userinput"})
                /\ LET new == db'.userinput[Len(db'.userinput)]
                   IN new = [_id |-> new._id] @@ req /\ resp.body.input_id = str(new._id)

C7_Input == [][C7_InputStep]_vars

\* bodies with every numeric field on its lower and on its upper limit were
\* stored
C7_Witness ==
    /\ last.op = "save_user_input" /\ last.resp.kind = "ok"
    /\ last.req.height_cm = {250} /\ last.req.weight_kg = {250} /\ last.req.age = {100}
    /\ Len(db.userinput) = 2
    /\ db.userinput[1].height_cm = {100} /\ db.userinput[1].weight_kg = {30}
    /\ db.userinput[1].age = {13}

\* C8: no two User records share an email.
C8_UniqueEmail ==
    \A i, j \in 1..Len(db.user) : i # j => db.user[i].email # db.user[j].email

\* C9: the store holds, for every user id, no more summaries than glow-up
\* plans, no more of those than styling plans, no more of those than
\* physique plans, no more of those than face analyses; every insert of a
\* run goes to the collection that follows, in the order face, physique,
\* styling, glow-up, summary, the one the run wrote before; and a failing
\* insert ends the run with its earlier documents stored and no later one.
C9_Chain ==
    \A u \in UserIds :
        /\ Count(db, "analysissummary", u) <= Count(db, "glowupplan", u)
        /\ Count(db, "glowupplan", u) <= Count(db, "stylingplan", u)
        /\ Count(db, "stylingplan", u) <= Count(db, "physiqueplan", u)
        /\ Count(db, "physiqueplan", u) <= Count(db, "lookmaxxingdetail", u)

C9_RunStep ==
    (last'.op = "run_workflow" /\ last'.from # NoReq) =>
        LET cur == last'.from
            resp == last'.resp
        IN /\ \A i \in 1..cur.pos : Count(db, PlanOrder[i], cur.req.user_id) >= 1
           /\ resp.kind = "pending" =>
                /\ cur.pos < 5
                /\ GrewByOne(PlanOrder[cur.pos + 1]) /\ Others({PlanOrder[cur.pos + 1]})
                /\ db'[PlanOrder[cur.pos + 1]][Len(db'[PlanOrder[cur.pos + 1]])].user_id = cur.req.user_id
                /\ inflight' = Put(Take(cur), [cur EXCEPT !.pos = cur.pos + 1])
           /\ resp.kind = "exc" => cur.pos < 5 /\ db' = db /\ inflight' = Take(cur)
           /\ resp.kind = "ok" => cur.pos = 5 /\ db' = db /\ inflight' = Take(cur)
           /\ resp.kind \in {"pending", "exc", "ok"}

C9_WriteOrder == [](C9_Chain) /\ [][C9_RunStep]_vars

\* a run was ended by its failing fourth insert while another run had made
\* its first two: the first run's three plans stay, without glow-up plan
\* and summary
C9_Witness ==
    /\ last.op = "run_workflow" /\ last.resp.kind = "exc" /\ last.from.pos = 3
    /\ Len(db.lookmaxxingdetail) = 2 /\ Len(db.physiqueplan) = 2
    /\ Len(db.stylingplan) = 1
    /\ Len(db.glowupplan) = 0 /\ Len(db.analysissummary) = 0
    /\ BagCardinality(inflight) = 1

\* C10: every step keeps every stored record where it is and as it is, and
\* GET /, login, the summary lookup and every request answered 409, 404 or
\* 401 leave all collections unchanged.
C10_Step ==
    /\ \A c \in Collections : IsPrefix(db[c], db'[c])
    /\ (\/ last'.op \in {"root", "login", "get_latest_summary"}
        \/ last'.resp.status \in {409, 404, 401}) => db' = db

C10_AppendOnly == [][C10_Step]_vars

\* a summary was looked up and returned from a store that also holds a user
C10_Witness ==
    /\ last.op = "get_latest_summary" /\ last.resp.kind = "ok"
    /\ Len(db.user) = 1
    /\ Len(db.analysissummary) = 1
====
